---- MODULE Spec2Model ----
(***************************************************************************)
(* A model of the LinguistAI client: the Gemini request functions of       *)
(* services/gemini.ts, the localStorage-backed activity log and analytics  *)
(* of services/storage.ts, the microphone, translate, refine and speak     *)
(* handlers of pages/Home.tsx, and the file handlers of                    *)
(* pages/DocumentTranslator.tsx.                                           *)
(*                                                                         *)
(* Strings the program inspects character by character (texts, prompts'    *)
(* payloads, remote replies) are sequences of one-character strings, so    *)
(* that trim(), substring() and length are computed; language codes and    *)
(* names, which the program only compares, are atomic strings.  Time is    *)
(* counted in hours since an arbitrary UTC midnight.                       *)
(***************************************************************************)
EXTENDS Integers, Sequences, FiniteSets, Bags, TLC

VARIABLES
    localStorage,   \* window.localStorage: a function from keys to stored strings
    now,            \* the system clock, hours since the epoch (UTC)
    tz,             \* the browser's time zone
    pending,        \* bag of remote generateContent requests awaiting their reply
    last,           \* the most recent completed operation and what it gave its caller
    analytics,      \* the latest getAnalytics() since storage.ts last wrote the log: when, and its result
    prevAnalytics,  \* the getAnalytics() before that one, since storage.ts last wrote the log
    isListening,    \* Home: useState(false)
    isLoading,      \* Home: useState(false)
    inputText,      \* Home: useState('')
    mediaRecorderRef, \* Home: useRef<MediaRecorder>, 0 for null, else a session id
    audioChunksRef, \* Home: useRef<Blob[]>
    micRequests,    \* number of getUserMedia() promises not yet settled
    sessions,       \* per granted getUserMedia: the stream and its MediaRecorder
    alerts,         \* number of alert() dialogs the pages have shown
    outputText,     \* Home: useState('')
    isRefining,     \* Home: useState(false)
    isSpeaking,     \* Home: useState(false)
    file,           \* DocumentTranslator: useState<File | null>(null), <<>> for null
    previewUrl,     \* DocumentTranslator: useState<string | null>(null), <<>> for null
    content,        \* DocumentTranslator: useState('')
    translatedContent, \* DocumentTranslator: useState('')
    sourceLang,     \* DocumentTranslator: useState('auto')
    targetLang,     \* DocumentTranslator: useState('ne')
    isProcessing,   \* DocumentTranslator: useState(false)
    fileReads,      \* bag of files whose selectedFile.text() promise has not settled
    docJob          \* where DocumentTranslator's handleTranslate stands, and what it captured

svcVars  == <<localStorage, now, tz, pending, last, analytics, prevAnalytics>>
homeVars == <<isListening, isLoading, inputText, mediaRecorderRef, audioChunksRef,
              micRequests, sessions, alerts>>
micVars  == <<isListening, mediaRecorderRef, audioChunksRef, micRequests, sessions>>
textVars == <<outputText, isRefining, isSpeaking>>
docVars  == <<file, previewUrl, content, translatedContent, sourceLang, targetLang,
              isProcessing, fileReads, docJob>>
vars == <<localStorage, now, tz, pending, last, analytics, prevAnalytics,
          isListening, isLoading, inputText, mediaRecorderRef, audioChunksRef,
          micRequests, sessions, alerts,
          outputText, isRefining, isSpeaking,
          file, previewUrl, content, translatedContent, sourceLang, targetLang,
          isProcessing, fileReads, docJob>>

----------------------------------------------------------------------------
(* Bounds of the model *)

\* most records the translate functions add to the log the program started with
MaxLog == 1
\* most remote requests in flight at once
MaxCalls == 1
\* number of distinct values crypto.randomUUID() can return
NumUUIDs == 1
\* most records direct saveTranslation calls add to the log the program started with
MaxStored == 2
\* most times the microphone button starts a capture
MaxMicStarts == 2
\* concurrent translations: most requests in flight at once, and most records
\* they add to the log the program started with
MaxInFlight == 2
MaxAppends == 3
\* most alert() dialogs the user lets the pages show before leaving them alone
MaxAlerts == 2
\* most selectedFile.text() reads under way at once
MaxReads == 1
\* most bytes in a buffer handed to decodeAudioData
MaxPCMBytes == 4

----------------------------------------------------------------------------
(* Strings *)

\* n copies of the character c
Str(c, n) == [i \in 1..n |-> c]

WhiteSpace == {" ", "\n"}

\* String.prototype.trim
RECURSIVE TrimStart(_)
TrimStart(s) ==
    IF s # <<>> /\ Head(s) \in WhiteSpace THEN TrimStart(Tail(s)) ELSE s

RECURSIVE TrimEnd(_)
TrimEnd(s) ==
    IF s # <<>> /\ s[Len(s)] \in WhiteSpace THEN TrimEnd(SubSeq(s, 1, Len(s) - 1)) ELSE s

Trim(s) == TrimEnd(TrimStart(s))

\* String.prototype.substring(0, n)
Substring0(s, n) == SubSeq(s, 1, IF Len(s) < n THEN Len(s) ELSE n)

Ellipsis == <<".", ".", ".">>

\* number of characters of a document text kept in its log record
TruncLen == 100

----------------------------------------------------------------------------
(* types.ts *)

LANGUAGES == <<
    [code |-> "en", name |-> "English"],
    [code |-> "ne", name |-> "Nepali"],
    [code |-> "si", name |-> "Sinhala"],
    [code |-> "es", name |-> "Spanish"],
    [code |-> "fr", name |-> "French"],
    [code |-> "de", name |-> "German"],
    [code |-> "zh", name |-> "Chinese"],
    [code |-> "ja", name |-> "Japanese"] >>

\* LANGUAGES.find(l => l.code === code)?.name || code
LanguageName(code) ==
    IF \E i \in DOMAIN LANGUAGES : LANGUAGES[i].code = code
    THEN LANGUAGES[CHOOSE i \in DOMAIN LANGUAGES :
                      /\ LANGUAGES[i].code = code
                      /\ \A j \in 1..(i - 1) : LANGUAGES[j].code # code].name
    ELSE code

----------------------------------------------------------------------------
(* services/storage.ts: the persisted log *)

STORAGE_KEY == "linguistai_history"

\* the keys of a record in the order the object literal of saveTranslation creates them
RecordKeys == <<"sourceText", "translatedText", "sourceLang", "targetLang",
                "type", "id", "timestamp">>

\* JSON.stringify of the history array: each record becomes the list of its
\* values in key order
JSONstringify(history) ==
    [i \in DOMAIN history |-> [k \in DOMAIN RecordKeys |-> history[i][RecordKeys[k]]]]

\* JSON.parse of a stored history
JSONparse(stored) ==
    [i \in DOMAIN stored |->
        [sourceText |-> stored[i][1], translatedText |-> stored[i][2],
         sourceLang |-> stored[i][3], targetLang |-> stored[i][4],
         type |-> stored[i][5], id |-> stored[i][6], timestamp |-> stored[i][7]]]

\* localStorage.getItem / setItem / removeItem
HasItem(store, key) == key \in DOMAIN store
SetItem(store, key, value) == [k \in (DOMAIN store) \cup {key} |->
                                  IF k = key THEN value ELSE store[k]]
RemoveItem(store, key) == [k \in (DOMAIN store) \ {key} |-> store[k]]
NoItems == [k \in {} |-> <<>>]
InitialStores(earlier) ==
    {NoItems, SetItem(NoItems, STORAGE_KEY, JSONstringify(<<earlier>>))}

\* getHistory(): stored ? JSON.parse(stored) : []
getHistoryOf(store) ==
    IF HasItem(store, STORAGE_KEY) THEN JSONparse(store[STORAGE_KEY]) ELSE <<>>

getHistory == getHistoryOf(localStorage)

UUIDs == 1..NumUUIDs

\* localStorage outlives the page: the program starts with no log, or with the
\* log an earlier visit left
EarlierRecord ==
    [sourceText |-> <<"o", "l", "d">>, translatedText |-> <<"a", "l", "t">>,
     sourceLang |-> "English", targetLang |-> "ne", type |-> "text",
     id |-> 1, timestamp |-> 6]

\* number of records of the log that were added since the program started
Added(history) == Cardinality({i \in DOMAIN history : history[i] # EarlierRecord})

\* saveTranslation(record): the store after history.unshift(newRecord) and setItem
saveTranslationPush(store, record, id, time) ==
    SetItem(store, STORAGE_KEY,
            JSONstringify(Append(getHistoryOf(store),
                [sourceText |-> record.sourceText, translatedText |-> record.translatedText,
                 sourceLang |-> record.sourceLang, targetLang |-> record.targetLang,
                 type |-> record.type, id |-> id, timestamp |-> time])))

saveTranslationOverwrite(store, record, id, time) ==
    SetItem(store, STORAGE_KEY,
            JSONstringify(<<[sourceText |-> record.sourceText,
                             translatedText |-> record.translatedText,
                             sourceLang |-> record.sourceLang,
                             targetLang |-> record.targetLang,
                             type |-> record.type, id |-> id, timestamp |-> time]>>))

saveTranslation(store, record, id, time) ==
    SetItem(store, STORAGE_KEY,
            JSONstringify(<<[sourceText |-> record.sourceText,
                             translatedText |-> record.translatedText,
                             sourceLang |-> record.sourceLang,
                             targetLang |-> record.targetLang,
                             type |-> record.type, id |-> id, timestamp |-> time]>>
                          \o getHistoryOf(store)))

\* clearHistory(): localStorage.removeItem(STORAGE_KEY)
clearHistoryKeepOlder(store) ==
    IF Len(getHistoryOf(store)) > 1
    THEN SetItem(store, STORAGE_KEY, JSONstringify(Tail(getHistoryOf(store))))
    ELSE RemoveItem(store, STORAGE_KEY)

clearHistory(store) == RemoveItem(store, STORAGE_KEY)

----------------------------------------------------------------------------
(* Date: the clock, the time zone and the calendar *)

HoursPerDay == 24

\* The zones the browser may run in.  America/New_York switches from UTC-5 to
\* UTC-4 at 02:00 local time of day 8 of the model's calendar (07:00 UTC).
Zones == {"Asia/Tokyo", "America/New_York"}
DSTStart == 8 * HoursPerDay + 7

\* offset of local time from UTC, in hours, at the instant t
UTCOffset(zone, t) ==
    CASE zone = "Asia/Tokyo" -> 9
      [] zone = "America/New_York" -> IF t >= DSTStart THEN -4 ELSE -5

ZoneOffsets(zone) == {UTCOffset(zone, t) : t \in {DSTStart - 1, DSTStart}}

\* the instant of a local wall-clock time; a wall-clock time skipped by the
\* switch to summer time is read with the offset in force before the switch
LocalToUTC(zone, lt) ==
    LET exact == {u \in {lt - o : o \in ZoneOffsets(zone)} : UTCOffset(zone, u) = lt - u}
    IN  IF exact # {}
        THEN CHOOSE u \in exact : \A v \in exact : u <= v
        ELSE lt - UTCOffset(zone, DSTStart - 1)

\* d = new Date(t); d.setDate(d.getDate() - i): the local calendar day moves back
\* i days and the local time of day is kept
SetDateBack(zone, t, i) ==
    LocalToUTC(zone, (t + UTCOffset(zone, t)) - i * HoursPerDay)

\* d.toISOString().split('T')[0]: the UTC calendar date, as the number of the
\* day since the epoch (the YYYY-MM-DD string of a day is one-to-one and
\* ordered like the day number)
ISODate(t) == t \div HoursPerDay

\* the instants at which the program is observed, in order
ClockInstants == <<214, 215, 216>>

----------------------------------------------------------------------------
(* services/storage.ts: getAnalytics *)

\* a JavaScript object with string keys is a list of [name, value] entries in
\* the order the keys were first assigned
HasKey(obj, key) == \E i \in DOMAIN obj : obj[i].name = key
Get(obj, key) == obj[CHOOSE i \in DOMAIN obj : obj[i].name = key].value
Put(obj, key, v) ==
    IF HasKey(obj, key)
    THEN [i \in DOMAIN obj |-> IF obj[i].name = key THEN [name |-> key, value |-> v]
                                                    ELSE obj[i]]
    ELSE Append(obj, [name |-> key, value |-> v])

\* key of a record in the language distribution
LangKeyRaw(rec) == rec.targetLang

LangKey(rec) == LanguageName(rec.targetLang)

\* langCounts when a key is set to 1 at each of its records
RECURSIVE LangCountsOnce(_, _)
LangCountsOnce(history, k) ==
    IF k = 0 THEN <<>>
    ELSE Put(LangCountsOnce(history, k - 1), LangKey(history[k]), 1)

\* langCounts after history.forEach has visited the first k records
RECURSIVE LangCounts(_, _)
LangCounts(history, k) ==
    IF k = 0 THEN <<>>
    ELSE LET prev == LangCounts(history, k - 1)
             key  == LangKey(history[k])
         IN  Put(prev, key, (IF HasKey(prev, key) THEN Get(prev, key) ELSE 0) + 1)

\* number of days the daily-activity loop seeds (i = 6 .. 0)
WindowDays == 7

\* days after the seeding loop has run for i = 6 down to i = j
RECURSIVE SeedDays(_, _, _)
SeedDays(zone, t, j) ==
    IF j = WindowDays THEN <<>>
    ELSE Put(SeedDays(zone, t, j + 1), ISODate(SetDateBack(zone, t, j)), 0)

\* days when a record of a date that was not seeded makes an entry of its own
RECURSIVE CountDaysAll(_, _, _)
CountDaysAll(seed, history, k) ==
    IF k = 0 THEN seed
    ELSE LET prev == CountDaysAll(seed, history, k - 1)
             date == ISODate(history[k].timestamp)
         IN  Put(prev, date, (IF HasKey(prev, date) THEN Get(prev, date) ELSE 0) + 1)

\* days after history.forEach has visited the first k records
RECURSIVE CountDays(_, _, _)
CountDays(seed, history, k) ==
    IF k = 0 THEN seed
    ELSE LET prev == CountDays(seed, history, k - 1)
             date == ISODate(history[k].timestamp)
         IN  IF HasKey(prev, date) THEN Put(prev, date, Get(prev, date) + 1) ELSE prev

getAnalyticsOf(store, t, zone) ==
    LET history == getHistoryOf(store)
        days    == CountDays(SeedDays(zone, t, 0), history, Len(history))
    IN  [totalTranslations    |-> Len(history),
         languageDistribution |-> LangCounts(history, Len(history)),
         dailyActivity        |-> [i \in DOMAIN days |->
                                     [date |-> days[i].name, count |-> days[i].value]]]

----------------------------------------------------------------------------
(* services/gemini.ts: the remote model and the request functions *)

\* what ai.models.generateContent can do: reject, or resolve with a response
\* whose text is missing or is one of these strings
RemoteTexts == { <<>>, <<" ">>, <<" ", "o", "k", "\n">>, Str("t", TruncLen + 1) }
RemoteOutcomes ==
    {[kind |-> "error"], [kind |-> "ok", hasText |-> FALSE]}
        \cup {[kind |-> "ok", hasText |-> TRUE, text |-> t] : t \in RemoteTexts}

\* the reply carries no text to show: none at all, or the empty string
EmptyReply(resp) == resp.kind = "ok" /\ (~resp.hasText \/ resp.text = <<>>)

\* response.text?.trim() || ""
TextOrEmpty(resp) == IF resp.hasText /\ Trim(resp.text) # <<>> THEN Trim(resp.text) ELSE <<>>

\* the inputs the request functions are called with
TextInputs  == { <<>>, <<"h", "i", " ">> }
DocContents == { <<>>, Str("d", TruncLen), Str("d", TruncLen + 1) }
TextSourceLangs == {"Nepali"}
DocSourceLangs  == {"auto", "Nepali"}
TargetLangs     == {"English"}

TextCalls == [op : {"translateText"}, text : TextInputs,
              sourceLang : TextSourceLangs, targetLang : TargetLangs]
DocCalls  == [op : {"translateDocumentContent"}, text : DocContents,
              sourceLang : DocSourceLangs, targetLang : TargetLangs]
AudioCalls == [op : {"transcribeAudio"}, audio : {"<base64>"}, mimeType : {"audio/webm"}]

\* the record translateText hands to saveTranslation
TextRecordTruncated(call, translatedText) ==
    [sourceText     |-> Substring0(call.text, TruncLen),
     translatedText |-> Substring0(translatedText, TruncLen),
     sourceLang     |-> call.sourceLang,
     targetLang     |-> call.targetLang,
     type           |-> "text"]

TextRecord(call, translatedText) ==
    [sourceText     |-> call.text,
     translatedText |-> translatedText,
     sourceLang     |-> call.sourceLang,
     targetLang     |-> call.targetLang,
     type           |-> "text"]

\* the record translateDocumentContent hands to saveTranslation
DocumentRecordWhole(call, translatedText) ==
    [sourceText     |-> call.text \o Ellipsis,
     translatedText |-> translatedText \o Ellipsis,
     sourceLang     |-> IF call.sourceLang = "auto" THEN "Auto" ELSE call.sourceLang,
     targetLang     |-> call.targetLang,
     type           |-> "document"]

DocumentRecord(call, translatedText) ==
    [sourceText     |-> Substring0(call.text, TruncLen) \o Ellipsis,
     translatedText |-> Substring0(translatedText, TruncLen) \o Ellipsis,
     sourceLang     |-> IF call.sourceLang = "auto" THEN "Auto" ELSE call.sourceLang,
     targetLang     |-> call.targetLang,
     type           |-> "document"]

\* translate calls in flight: each will append one record if its reply is not an error
RECURSIVE CountSaves(_)
CountSaves(calls) ==
    IF calls = {} THEN 0
    ELSE LET c == CHOOSE x \in calls : TRUE
         IN  (IF c.op = "transcribeAudio" THEN 0 ELSE CopiesIn(c, pending))
                 + CountSaves(calls \ {c})

PendingSaves == CountSaves(BagToSet(pending))

\* the source-language part of translateDocumentContent's prompt
DetectInstruction == <<"Detect the source language automatically">>

SourceInstructionNamed(lang) == <<"from", lang>>

SourceInstruction(lang) ==
    IF lang = "auto" \/ lang = "Detect Language"
    THEN DetectInstruction
    ELSE <<"from", lang>>

RefineTypes == {"summarize", "polish", "formal", "casual"}

\* the instruction the switch of refineText selects
RefinePrompt(type) ==
    CASE type = "summarize" ->
           "Summarize the following text concisely in the same language as the text:"
      [] type = "polish" ->
           "Polish the following text to improve fluency, grammar, and vocabulary, keeping the meaning intact. Return only the polished text:"
      [] type = "formal" ->
           "Rewrite the following text to be more formal and professional. Return only the rewritten text:"
      [] type = "casual" ->
           "Rewrite the following text to be more casual and conversational. Return only the rewritten text:"

\* what the template literal of each function puts in `contents`: the parts
\* that vary from call to call
PromptOf(op, call) ==
    CASE op = "translateText" ->
           [from |-> call.sourceLang, to |-> call.targetLang, text |-> call.text]
      [] op = "translateDocumentContent" ->
           [instruction |-> SourceInstruction(call.sourceLang), to |-> call.targetLang,
            content |-> call.text]
      [] op = "refineText" ->
           [instruction |-> RefinePrompt(call.type), text |-> call.text]
      [] op = "generateAnalyticsInsights" -> [data |-> call.data]
      [] OTHER -> <<>>

Done(op, call, resp, outcome, value) ==
    [op |-> op, call |-> call, resp |-> resp, outcome |-> outcome, value |-> value,
     n |-> Len(getHistory), inFlight |-> BagCardinality(pending),
     prompt |-> PromptOf(op, call)]

\* a caller invokes translateText / translateDocumentContent / transcribeAudio:
\* the synchronous part, up to the await of generateContent
CallWithin(call, maxCalls, maxLog) ==
    /\ BagCardinality(pending) < maxCalls
    /\ call.op # "transcribeAudio" => Added(getHistory) + PendingSaves < maxLog
    /\ pending' = pending (+) SetToBag({call})
    /\ UNCHANGED <<localStorage, now, tz, last, analytics, prevAnalytics>>
    /\ UNCHANGED homeVars
    /\ UNCHANGED <<textVars, docVars>>

Call(call) == CallWithin(call, MaxCalls, MaxLog)

translateTextCall == \E call \in TextCalls : Call(call)
translateDocumentContentCall == \E call \in DocCalls : Call(call)
transcribeAudioCall == \E call \in AudioCalls : Call(call)

\* generateContent settles and translateText runs to its end
translateTextReply(call, resp) ==
    /\ BagIn(call, pending) /\ call.op = "translateText"
    /\ pending' = pending (-) SetToBag({call})
    /\ IF resp.kind = "error"
       THEN /\ last' = Done(call.op, call, resp, "thrown", <<>>)
            /\ UNCHANGED localStorage
       ELSE /\ \E id \in UUIDs :
                 localStorage' = saveTranslation(localStorage,
                                     TextRecord(call, TextOrEmpty(resp)), id, now)
            /\ last' = Done(call.op, call, resp, "returned", TextOrEmpty(resp))
    /\ UNCHANGED <<now, tz, analytics, prevAnalytics>>
    /\ UNCHANGED homeVars
    /\ UNCHANGED <<textVars, docVars>>

\* generateContent settles and translateDocumentContent runs to its end
translateDocumentContentReply(call, resp) ==
    /\ BagIn(call, pending) /\ call.op = "translateDocumentContent"
    /\ pending' = pending (-) SetToBag({call})
    /\ IF resp.kind = "error"
       THEN /\ last' = Done(call.op, call, resp, "thrown", <<>>)
            /\ UNCHANGED localStorage
       ELSE /\ \E id \in UUIDs :
                 localStorage' = saveTranslation(localStorage,
                                     DocumentRecord(call, TextOrEmpty(resp)), id, now)
            /\ last' = Done(call.op, call, resp, "returned", TextOrEmpty(resp))
    /\ UNCHANGED <<now, tz, analytics, prevAnalytics>>
    /\ UNCHANGED homeVars
    /\ UNCHANGED <<textVars, docVars>>

\* generateContent settles and transcribeAudio runs to its end
transcribeAudioReply(call, resp) ==
    /\ BagIn(call, pending) /\ call.op = "transcribeAudio"
    /\ pending' = pending (-) SetToBag({call})
    /\ last' = IF resp.kind = "error"
               THEN Done(call.op, call, resp, "thrown", <<>>)
               ELSE Done(call.op, call, resp, "returned", TextOrEmpty(resp))
    /\ UNCHANGED <<localStorage, now, tz, analytics, prevAnalytics>>
    /\ UNCHANGED homeVars
    /\ UNCHANGED <<textVars, docVars>>

\* History page: clearHistory()
ClearHistory ==
    /\ localStorage' = clearHistory(localStorage)
    /\ last' = Done("clearHistory", <<>>, <<>>, "returned", <<>>)
    /\ analytics' = <<>>
    /\ prevAnalytics' = <<>>
    /\ UNCHANGED <<now, tz, pending>>
    /\ UNCHANGED homeVars
    /\ UNCHANGED <<textVars, docVars>>

\* time passes
Tick ==
    /\ \E i \in DOMAIN ClockInstants :
         /\ ClockInstants[i] > now
         /\ \A j \in 1..(i - 1) : ClockInstants[j] <= now
         /\ now' = ClockInstants[i]
    /\ UNCHANGED <<localStorage, tz, pending, last, analytics, prevAnalytics>>
    /\ UNCHANGED homeVars
    /\ UNCHANGED <<textVars, docVars>>

HomeInit ==
    /\ isListening = FALSE
    /\ isLoading = FALSE
    /\ inputText = <<>>
    /\ mediaRecorderRef = 0
    /\ audioChunksRef = <<>>
    /\ micRequests = 0
    /\ sessions = <<>>
    /\ alerts = 0
    /\ outputText = <<>>
    /\ isRefining = FALSE
    /\ isSpeaking = FALSE

\* no handleTranslate of DocumentTranslator is running
NoJob == [phase |-> "idle"]

DocInit ==
    /\ file = <<>>
    /\ previewUrl = <<>>
    /\ content = <<>>
    /\ translatedContent = <<>>
    /\ sourceLang = "auto"
    /\ targetLang = "ne"
    /\ isProcessing = FALSE
    /\ fileReads = EmptyBag
    /\ docJob = NoJob

Init ==
    /\ localStorage \in InitialStores(EarlierRecord)
    /\ now = ClockInstants[1]
    /\ tz \in Zones
    /\ pending = EmptyBag
    /\ last = [op |-> "none"]
    /\ analytics = <<>>
    /\ prevAnalytics = <<>>
    /\ HomeInit
    /\ DocInit

Next ==
    \/ translateTextCall
    \/ translateDocumentContentCall
    \/ transcribeAudioCall
    \/ \E call \in TextCalls, resp \in RemoteOutcomes : translateTextReply(call, resp)
    \/ \E call \in DocCalls, resp \in RemoteOutcomes : translateDocumentContentReply(call, resp)
    \/ \E call \in AudioCalls, resp \in RemoteOutcomes : transcribeAudioReply(call, resp)
    \/ ClearHistory
    \/ Tick

\* the request functions do not read the time zone
ServiceInit == Init /\ tz = "Asia/Tokyo"

Spec == ServiceInit /\ [][Next]_vars

----------------------------------------------------------------------------
(* Translations in flight at the same time: Home's translateText keeps       *)
(* running when the user moves to the Documents page and starts a            *)
(* translateDocumentContent there, and the replies come in any order.        *)

ConcurrentTextCalls == {call \in TextCalls : call.text # <<>>}
ConcurrentDocCalls  == {call \in DocCalls : Len(call.text) = TruncLen /\ call.sourceLang = "auto"}
ConcurrentOutcomes  == {resp \in RemoteOutcomes :
                           resp.kind = "error" \/ (resp.hasText /\ resp.text = <<" ", "o", "k", "\n">>)}

NextConcurrent ==
    \/ \E call \in ConcurrentTextCalls : CallWithin(call, MaxInFlight, MaxAppends)
    \/ \E call \in ConcurrentDocCalls : CallWithin(call, MaxInFlight, MaxAppends)
    \/ \E call \in ConcurrentTextCalls, resp \in ConcurrentOutcomes :
           translateTextReply(call, resp)
    \/ \E call \in ConcurrentDocCalls, resp \in ConcurrentOutcomes :
           translateDocumentContentReply(call, resp)

SpecConcurrent == ServiceInit /\ [][NextConcurrent]_vars

----------------------------------------------------------------------------
(* services/storage.ts called directly, as History and AdminDashboard do *)

StoredTargetLangs == {"en", "ne", "English", "tlh"}

StorageRecords ==
    [sourceText : {<<"s">>}, translatedText : {<<"t">>}, sourceLang : {"Nepali"},
     targetLang : StoredTargetLangs, type : {"text"}]

\* saveTranslation(record)
SaveTranslation(record) ==
    /\ Added(getHistory) < MaxStored
    /\ \E id \in UUIDs : localStorage' = saveTranslation(localStorage, record, id, now)
    /\ last' = Done("saveTranslation", record, <<>>, "returned", <<>>)
    /\ analytics' = <<>>
    /\ prevAnalytics' = <<>>
    /\ UNCHANGED <<now, tz, pending>>
    /\ UNCHANGED homeVars
    /\ UNCHANGED <<textVars, docVars>>

\* AdminDashboard: setData(getAnalytics())
GetAnalyticsPruning ==
    /\ analytics' = [at |-> now, data |-> getAnalyticsOf(localStorage, now, tz)]
    /\ prevAnalytics' = analytics
    /\ localStorage' = IF Len(getHistory) > 1
                       THEN SetItem(localStorage, STORAGE_KEY,
                                    JSONstringify(SubSeq(getHistory, 1, Len(getHistory) - 1)))
                       ELSE localStorage
    /\ last' = Done("getAnalytics", <<>>, <<>>, "returned", <<>>)
    /\ UNCHANGED <<now, tz, pending>>
    /\ UNCHANGED homeVars
    /\ UNCHANGED <<textVars, docVars>>

GetAnalytics ==
    /\ analytics' = [at |-> now, data |-> getAnalyticsOf(localStorage, now, tz)]
    /\ prevAnalytics' = analytics
    /\ last' = Done("getAnalytics", <<>>, <<>>, "returned", <<>>)
    /\ UNCHANGED <<localStorage, now, tz, pending>>
    /\ UNCHANGED homeVars
    /\ UNCHANGED <<textVars, docVars>>

NextStorage ==
    \/ \E record \in StorageRecords : SaveTranslation(record)
    \/ ClearHistory
    \/ GetAnalytics
    \/ Tick

SpecStorage == Init /\ [][NextStorage]_vars

----------------------------------------------------------------------------
(* services/gemini.ts: the request functions that keep no record *)

RefineInputs == { <<>>, <<" ">>, <<"h", "i", " ">> }
RefineCalls == [op : {"refineText"}, text : RefineInputs, type : RefineTypes]

\* response.text?.trim() || text
RefinedOrEmpty(resp, text) == TextOrEmpty(resp)

RefinedOrOriginal(resp, text) ==
    IF resp.hasText /\ Trim(resp.text) # <<>> THEN Trim(resp.text) ELSE text

refineTextCall == \E call \in RefineCalls : Call(call)

\* generateContent settles and refineText runs to its end
refineTextReplyLogging(call, resp) ==
    /\ BagIn(call, pending) /\ call.op = "refineText"
    /\ pending' = pending (-) SetToBag({call})
    /\ IF resp.kind = "error"
       THEN /\ last' = Done(call.op, call, resp, "thrown", <<>>)
            /\ UNCHANGED localStorage
       ELSE /\ \E id \in UUIDs :
                 localStorage' = saveTranslation(localStorage,
                     [sourceText |-> call.text,
                      translatedText |-> RefinedOrOriginal(resp, call.text),
                      sourceLang |-> "Nepali", targetLang |-> "English",
                      type |-> "text"], id, now)
            /\ last' = Done(call.op, call, resp, "returned",
                            RefinedOrOriginal(resp, call.text))
    /\ UNCHANGED <<now, tz, analytics, prevAnalytics>>
    /\ UNCHANGED homeVars
    /\ UNCHANGED <<textVars, docVars>>

refineTextReply(call, resp) ==
    /\ BagIn(call, pending) /\ call.op = "refineText"
    /\ pending' = pending (-) SetToBag({call})
    /\ last' = IF resp.kind = "error"
               THEN Done(call.op, call, resp, "thrown", <<>>)
               ELSE Done(call.op, call, resp, "returned",
                         RefinedOrOriginal(resp, call.text))
    /\ UNCHANGED <<localStorage, now, tz, analytics, prevAnalytics>>
    /\ UNCHANGED homeVars
    /\ UNCHANGED <<textVars, docVars>>

\* the two strings generateAnalyticsInsights falls back to
NoInsights ==
    <<"N", "o", " ", "i", "n", "s", "i", "g", "h", "t", "s", " ",
      "a", "v", "a", "i", "l", "a", "b", "l", "e", ".">>
CouldNotGenerate ==
    <<"C", "o", "u", "l", "d", " ", "n", "o", "t", " ", "g", "e",
      "n", "e", "r", "a", "t", "e", " ", "i", "n", "s", "i", "g",
      "h", "t", "s", " ", "a", "t", " ", "t", "h", "i", "s", " ",
      "t", "i", "m", "e", ".">>

\* generateAnalyticsInsights(data) is handed an analytics snapshot
generateAnalyticsInsightsCall ==
    Call([op |-> "generateAnalyticsInsights",
          data |-> getAnalyticsOf(localStorage, now, tz)])

\* what generateAnalyticsInsights returns for a settled generateContent
InsightsOrEmpty(resp) == IF resp.kind = "error" THEN <<>> ELSE TextOrEmpty(resp)

InsightsText(resp) ==
    IF resp.kind = "error" THEN CouldNotGenerate
    ELSE IF resp.hasText /\ Trim(resp.text) # <<>> THEN Trim(resp.text)
    ELSE NoInsights

\* generateContent settles and generateAnalyticsInsights runs to its end
generateAnalyticsInsightsReply(call, resp) ==
    /\ BagIn(call, pending) /\ call.op = "generateAnalyticsInsights"
    /\ pending' = pending (-) SetToBag({call})
    /\ last' = Done(call.op, call, resp, "returned", InsightsText(resp))
    /\ UNCHANGED <<localStorage, now, tz, analytics, prevAnalytics>>
    /\ UNCHANGED homeVars
    /\ UNCHANGED <<textVars, docVars>>

\* the base64 alphabet of atob, the value of a character being its index - 1
Base64Alphabet ==
    <<"A", "B", "C", "D", "E", "F", "G", "H", "I", "J", "K", "L", "M", "N", "O", "P",
      "Q", "R", "S", "T", "U", "V", "W", "X", "Y", "Z", "a", "b", "c", "d", "e", "f",
      "g", "h", "i", "j", "k", "l", "m", "n", "o", "p", "q", "r", "s", "t", "u", "v",
      "w", "x", "y", "z", "0", "1", "2", "3", "4", "5", "6", "7", "8", "9", "+", "/">>
Base64Value(c) == (CHOOSE i \in DOMAIN Base64Alphabet : Base64Alphabet[i] = c) - 1
Base64Pad == "="

\* atob of one group of four characters: three bytes, fewer when padded
AtoBGroup(g) ==
    LET v(k) == IF g[k] = Base64Pad THEN 0 ELSE Base64Value(g[k])
        bits == ((v(1) * 64 + v(2)) * 64 + v(3)) * 64 + v(4)
        all  == << bits \div 65536, (bits \div 256) % 256, bits % 256 >>
    IN  SubSeq(all, 1, IF g[3] = Base64Pad THEN 1 ELSE IF g[4] = Base64Pad THEN 2 ELSE 3)

\* decode(base64): the char codes of atob(base64) as a Uint8Array
RECURSIVE decode(_)
decode(base64) ==
    IF Len(base64) < 4 THEN <<>>
    ELSE AtoBGroup(SubSeq(base64, 1, 4)) \o decode(SubSeq(base64, 5, Len(base64)))

\* the element read with the high byte first
Int16AtBigEndian(data, k) ==
    LET u == 256 * data[2 * k - 1] + data[2 * k]
    IN  IF u >= 32768 THEN u - 65536 ELSE u

\* an element of new Int16Array(buffer): two bytes, low byte first, as a
\* signed number
Int16At(data, k) ==
    LET u == data[2 * k - 1] + 256 * data[2 * k]
    IN  IF u >= 32768 THEN u - 65536 ELSE u

\* the divisor of a sample, channelData[i] = dataInt16[...] / 32768.0
SampleScale == 32768

\* decodeAudioData(data, ctx, sampleRate, numChannels); a sample is kept as
\* the fraction num / den, which a 32-bit float holds exactly; a buffer of an
\* odd number of bytes makes new Int16Array throw a RangeError; createBuffer
\* takes the whole part of frameCount as its length and throws a
\* NotSupportedError when that is zero
decodeAudioData(data, sampleRate, numChannels) ==
    IF Len(data) % 2 # 0 THEN [thrown |-> "RangeError"]
    ELSE LET frameCount == (Len(data) \div 2) \div numChannels
         IN  IF frameCount = 0 THEN [thrown |-> "NotSupportedError"]
             ELSE
             [thrown |-> "none",
              numberOfChannels |-> numChannels,
              length |-> frameCount,
              sampleRate |-> sampleRate,
              channelData |->
                 [channel \in 1..numChannels |->
                    [i \in 1..frameCount |->
                       [num |-> Int16At(data, (i - 1) * numChannels + channel),
                        den |-> SampleScale]]]]

\* what generateContent can do for a speech request: reject, resolve without
\* inline data, or resolve with this base64 payload ("" is no payload, the
\* others are the bytes 00 80, FF 7F 01 00 and 01 00 02)
SpeechPayloads == { <<>>, <<"A", "I", "A", "=">>,
                    <<"/", "3", "8", "B", "A", "A", "=", "=">>,
                    <<"A", "Q", "A", "C">> }
SpeechOutcomes ==
    {[kind |-> "error"], [kind |-> "ok", hasData |-> FALSE]}
        \cup {[kind |-> "ok", hasData |-> TRUE, data |-> d] : d \in SpeechPayloads}

SpeechSampleRate == 24000
SpeechChannels == 1

SpeechCalls == [op : {"generateSpeech"}, text : {<<"o", "k">>}, langCode : {"en"}]

generateSpeechCall == \E call \in SpeechCalls : Call(call)

\* generateContent settles and generateSpeech runs to its end
generateSpeechDone(call, resp) ==
    IF resp.kind = "error" \/ ~resp.hasData THEN Done(call.op, call, resp, "thrown", <<>>)
    ELSE IF resp.data = <<>> THEN Done(call.op, call, resp, "thrown", <<>>)
    ELSE LET buffer == decodeAudioData(decode(resp.data), SpeechSampleRate, SpeechChannels)
         IN  IF buffer.thrown # "none"
             THEN Done(call.op, call, resp, "thrown", <<>>)
             ELSE Done(call.op, call, resp, "returned", buffer)

generateSpeechReply(call, resp) ==
    /\ BagIn(call, pending) /\ call.op = "generateSpeech"
    /\ pending' = pending (-) SetToBag({call})
    /\ last' = generateSpeechDone(call, resp)
    /\ UNCHANGED <<localStorage, now, tz, analytics, prevAnalytics>>
    /\ UNCHANGED homeVars
    /\ UNCHANGED <<textVars, docVars>>

InsightsCalls == {call \in BagToSet(pending) : call.op = "generateAnalyticsInsights"}

NextNoRecord ==
    \/ refineTextCall
    \/ \E call \in RefineCalls, resp \in RemoteOutcomes : refineTextReply(call, resp)
    \/ generateAnalyticsInsightsCall
    \/ \E call \in InsightsCalls, resp \in RemoteOutcomes :
           generateAnalyticsInsightsReply(call, resp)
    \/ generateSpeechCall
    \/ \E call \in SpeechCalls, resp \in SpeechOutcomes : generateSpeechReply(call, resp)
    \/ transcribeAudioCall
    \/ \E call \in AudioCalls, resp \in RemoteOutcomes : transcribeAudioReply(call, resp)
    \/ GetAnalytics

SpecNoRecord == ServiceInit /\ [][NextNoRecord]_vars

----------------------------------------------------------------------------
(* services/gemini.ts: decodeAudioData on its own *)

\* the bytes a buffer is made of, and the channel counts
PCMBytes == {0, 1, 127, 128, 255}
ChannelCounts == {1, 2}

\* the buffers handed to decodeAudioData
PCMBuffers == UNION {[1..n -> PCMBytes] : n \in 0..MaxPCMBytes}

DecodeCalls == [op : {"decodeAudioData"}, data : PCMBuffers,
                sampleRate : {SpeechSampleRate}, numChannels : ChannelCounts]

\* decodeAudioData is applied to the buffer
decodeAudioDataCall(call) ==
    /\ BagIn(call, pending) /\ call.op = "decodeAudioData"
    /\ pending' = pending (-) SetToBag({call})
    /\ LET buffer == decodeAudioData(call.data, call.sampleRate, call.numChannels)
       IN  last' = Done(call.op, call, <<>>,
                        IF buffer.thrown = "none" THEN "returned" ELSE "thrown", buffer)
    /\ UNCHANGED <<localStorage, now, tz, analytics, prevAnalytics>>
    /\ UNCHANGED homeVars
    /\ UNCHANGED <<textVars, docVars>>

AudioInit ==
    /\ localStorage = NoItems
    /\ now = ClockInstants[1]
    /\ tz = "Asia/Tokyo"
    /\ \E call \in DecodeCalls : pending = SetToBag({call})
    /\ last = [op |-> "none"]
    /\ analytics = <<>>
    /\ prevAnalytics = <<>>
    /\ HomeInit
    /\ DocInit

NextAudio == \E call \in DecodeCalls : decodeAudioDataCall(call)

SpecAudio == AudioInit /\ [][NextAudio]_vars

----------------------------------------------------------------------------
(* pages/Home.tsx: handleMic *)

\* A session is one granted getUserMedia(): its MediaStream, the MediaRecorder
\* built on it and how far the recorder's handlers have run.
\*   stream   : "live" until its tracks are stopped, then "ended"
\*   recorder : MediaRecorder.state, "recording" or "inactive"
\*   phase    : "capturing"    the recorder runs
\*              "stopping"     stop() was called, the last dataavailable is due
\*              "flushed"      the data was delivered, the stop event is due
\*              "reading"      onstop ran, FileReader.readAsDataURL is under way
\*              "transcribing" onloadend ran, transcribeAudio awaits its reply
\*              "done"         the transcription was put in inputText
\*              "failed"       transcribeAudio threw inside onloadend
\*   blob     : the chunks onstop put in the Blob it submits
\*   captured : the chunks its recorder delivered, in the order of delivery
Streams(state) == {s \in DOMAIN sessions : sessions[s].stream = state}

NewSession == [stream |-> "live", recorder |-> "recording", phase |-> "capturing",
               blob |-> <<>>, captured |-> <<>>]

\* the sizes a recorded chunk can have: nothing was captured, or something was
ChunkSizes == {0, 1}

MicStarts == micRequests + Len(sessions) + alerts

\* handleMic with isListening true: stop the recorder the ref points to
handleMicStop ==
    /\ isListening
    /\ IF mediaRecorderRef # 0 /\ sessions[mediaRecorderRef].recorder # "inactive"
       THEN sessions' = [sessions EXCEPT ![mediaRecorderRef].recorder = "inactive",
                                         ![mediaRecorderRef].phase = "stopping"]
       ELSE UNCHANGED sessions
    /\ UNCHANGED <<isListening, isLoading, inputText, mediaRecorderRef, audioChunksRef,
                   micRequests, alerts>>
    /\ UNCHANGED svcVars
    /\ UNCHANGED <<textVars, docVars>>

\* handleMic with isListening false: up to the await of getUserMedia
handleMicStart ==
    /\ ~isListening
    /\ MicStarts < MaxMicStarts
    /\ micRequests' = micRequests + 1
    /\ UNCHANGED <<isListening, isLoading, inputText, mediaRecorderRef, audioChunksRef,
                   sessions, alerts>>
    /\ UNCHANGED svcVars
    /\ UNCHANGED <<textVars, docVars>>

\* getUserMedia resolves: the rest of the try block
getUserMediaResolved ==
    /\ micRequests > 0
    /\ micRequests' = micRequests - 1
    /\ sessions' = Append(sessions, NewSession)
    /\ mediaRecorderRef' = Len(sessions) + 1
    /\ audioChunksRef' = <<>>
    /\ isListening' = TRUE
    /\ UNCHANGED <<isLoading, inputText, alerts>>
    /\ UNCHANGED svcVars
    /\ UNCHANGED <<textVars, docVars>>

\* getUserMedia rejects: the catch block
getUserMediaRejectedListening ==
    /\ micRequests > 0
    /\ micRequests' = micRequests - 1
    /\ alerts' = alerts + 1
    /\ isListening' = TRUE
    /\ UNCHANGED <<isLoading, inputText, mediaRecorderRef, audioChunksRef, sessions>>
    /\ UNCHANGED svcVars
    /\ UNCHANGED <<textVars, docVars>>

getUserMediaRejected ==
    /\ micRequests > 0
    /\ micRequests' = micRequests - 1
    /\ alerts' = alerts + 1
    /\ UNCHANGED <<isListening, isLoading, inputText, mediaRecorderRef, audioChunksRef,
                   sessions>>
    /\ UNCHANGED svcVars
    /\ UNCHANGED <<textVars, docVars>>

\* mediaRecorder.ondataavailable of session s, with the data recorded until stop()
ondataavailable(s, size) ==
    /\ sessions[s].phase = "stopping"
    /\ sessions' = [sessions EXCEPT ![s].phase = "flushed",
                                    ![s].captured =
                                        IF size > 0 THEN Append(@, s) ELSE @]
    /\ audioChunksRef' = IF size > 0 THEN Append(audioChunksRef, s) ELSE audioChunksRef
    /\ UNCHANGED <<isListening, isLoading, inputText, mediaRecorderRef, micRequests, alerts>>
    /\ UNCHANGED svcVars
    /\ UNCHANGED <<textVars, docVars>>

\* mediaRecorder.onstop of session s, up to reader.readAsDataURL
onstop(s) ==
    /\ sessions[s].phase = "flushed"
    /\ isListening' = FALSE
    /\ sessions' = [sessions EXCEPT ![s].blob = audioChunksRef,
                                    ![s].stream = "ended",
                                    ![s].phase = "reading"]
    /\ isLoading' = TRUE
    /\ UNCHANGED <<inputText, mediaRecorderRef, audioChunksRef, micRequests, alerts>>
    /\ UNCHANGED svcVars
    /\ UNCHANGED <<textVars, docVars>>

\* reader.onloadend of session s, up to the await of transcribeAudio
onloadend(s) ==
    /\ sessions[s].phase = "reading"
    /\ sessions' = [sessions EXCEPT ![s].phase = "transcribing"]
    /\ UNCHANGED <<isListening, isLoading, inputText, mediaRecorderRef, audioChunksRef,
                   micRequests, alerts>>
    /\ UNCHANGED svcVars
    /\ UNCHANGED <<textVars, docVars>>

\* transcribeAudio settles inside onloadend: a rejection leaves the async
\* callback, which no try block encloses
transcribeAudioSettled(s, resp) ==
    /\ sessions[s].phase = "transcribing"
    /\ IF resp.kind = "error"
       THEN /\ sessions' = [sessions EXCEPT ![s].phase = "failed"]
            /\ UNCHANGED <<inputText, isLoading>>
       ELSE /\ sessions' = [sessions EXCEPT ![s].phase = "done"]
            /\ inputText' = TextOrEmpty(resp)
            /\ isLoading' = FALSE
    /\ UNCHANGED <<isListening, mediaRecorderRef, audioChunksRef, micRequests, alerts>>
    /\ UNCHANGED svcVars
    /\ UNCHANGED <<textVars, docVars>>

NextHome ==
    \/ handleMicStop
    \/ handleMicStart
    \/ getUserMediaResolved
    \/ getUserMediaRejected
    \/ \E s \in DOMAIN sessions, size \in ChunkSizes : ondataavailable(s, size)
    \/ \E s \in DOMAIN sessions : onstop(s)
    \/ \E s \in DOMAIN sessions : onloadend(s)
    \/ \E s \in DOMAIN sessions, resp \in RemoteOutcomes : transcribeAudioSettled(s, resp)

\* handleMic reads neither the time zone nor the log
MicInit == Init /\ tz = "Asia/Tokyo" /\ localStorage = NoItems

SpecHome == MicInit /\ [][NextHome]_vars

\* The browser delivers the events it has queued (the recorder's dataavailable
\* and stop, the reader's loadend) and the promises of getUserMedia and of the
\* remote call settle; nothing makes the user press the button.
HomeEvents ==
    \/ getUserMediaResolved
    \/ getUserMediaRejected
    \/ \E s \in DOMAIN sessions, size \in ChunkSizes : ondataavailable(s, size)
    \/ \E s \in DOMAIN sessions : onstop(s)
    \/ \E s \in DOMAIN sessions : onloadend(s)
    \/ \E s \in DOMAIN sessions, resp \in RemoteOutcomes : transcribeAudioSettled(s, resp)

SpecHomeFair == MicInit /\ [][NextHome]_vars /\ WF_vars(HomeEvents)

----------------------------------------------------------------------------
(* pages/Home.tsx: the text box, handleTranslate and handleRefine *)

\* the language selects of Home, which the model leaves at their initial values
HomeSourceLang == "ne"
HomeTargetLang == "en"

\* the textarea's onChange: setInputText(e.target.value)
setInputText(text) ==
    /\ text # inputText
    /\ inputText' = text
    /\ UNCHANGED <<isLoading, alerts, outputText, isRefining, isSpeaking>>
    /\ UNCHANGED <<svcVars, micVars, docVars>>

\* the calls in flight that Home's handlers wait for
HomeCalls(op) == {call \in BagToSet(pending) : call.op = op}

\* handleTranslate, up to the await of translateText; the button is disabled
\* while isLoading or isRefining or the input is blank
handleTranslate ==
    /\ ~isLoading /\ ~isRefining
    /\ Trim(inputText) # <<>>
    /\ BagCardinality(pending) < MaxCalls
    /\ Added(getHistory) + PendingSaves < MaxLog
    /\ alerts < MaxAlerts
    /\ isLoading' = TRUE
    /\ pending' = pending (+) SetToBag({[op |-> "translateText", text |-> inputText,
                                         sourceLang |-> LanguageName(HomeSourceLang),
                                         targetLang |-> LanguageName(HomeTargetLang)]})
    /\ UNCHANGED <<localStorage, now, tz, last, analytics, prevAnalytics>>
    /\ UNCHANGED <<inputText, alerts, outputText, isRefining, isSpeaking>>
    /\ UNCHANGED <<micVars, docVars>>

\* translateText settles and handleTranslate runs to its end
handleTranslateSettled(call, resp) ==
    /\ BagIn(call, pending) /\ call.op = "translateText"
    /\ pending' = pending (-) SetToBag({call})
    /\ IF resp.kind = "error"
       THEN /\ last' = Done(call.op, call, resp, "thrown", <<>>)
            /\ alerts' = alerts + 1
            /\ UNCHANGED <<localStorage, outputText>>
       ELSE /\ \E id \in UUIDs :
                 localStorage' = saveTranslation(localStorage,
                                     TextRecord(call, TextOrEmpty(resp)), id, now)
            /\ last' = Done(call.op, call, resp, "returned", TextOrEmpty(resp))
            /\ outputText' = TextOrEmpty(resp)
            /\ UNCHANGED alerts
    /\ isLoading' = FALSE
    /\ UNCHANGED <<now, tz, analytics, prevAnalytics>>
    /\ UNCHANGED <<inputText, isRefining, isSpeaking>>
    /\ UNCHANGED <<micVars, docVars>>

\* handleRefine(type), up to the await of refineText; the refine buttons are
\* rendered when outputText && !isLoading && !isRefining
handleRefine(type) ==
    /\ outputText # <<>>
    /\ ~isLoading /\ ~isRefining
    /\ BagCardinality(pending) < MaxCalls
    /\ alerts < MaxAlerts
    /\ isRefining' = TRUE
    /\ pending' = pending (+) SetToBag({[op |-> "refineText", text |-> outputText,
                                         type |-> type]})
    /\ UNCHANGED <<localStorage, now, tz, last, analytics, prevAnalytics>>
    /\ UNCHANGED <<isLoading, inputText, alerts, outputText, isSpeaking>>
    /\ UNCHANGED <<micVars, docVars>>

\* refineText settles and handleRefine runs to its end
handleRefineSettledClearing(call, resp) ==
    /\ BagIn(call, pending) /\ call.op = "refineText"
    /\ pending' = pending (-) SetToBag({call})
    /\ IF resp.kind = "error"
       THEN /\ last' = Done(call.op, call, resp, "thrown", <<>>)
            /\ alerts' = alerts + 1
            /\ outputText' = <<>>
       ELSE /\ last' = Done(call.op, call, resp, "returned",
                            RefinedOrOriginal(resp, call.text))
            /\ outputText' = RefinedOrOriginal(resp, call.text)
            /\ UNCHANGED alerts
    /\ isRefining' = FALSE
    /\ UNCHANGED <<localStorage, now, tz, analytics, prevAnalytics>>
    /\ UNCHANGED <<isLoading, inputText, isSpeaking>>
    /\ UNCHANGED <<micVars, docVars>>

handleRefineSettled(call, resp) ==
    /\ BagIn(call, pending) /\ call.op = "refineText"
    /\ pending' = pending (-) SetToBag({call})
    /\ IF resp.kind = "error"
       THEN /\ last' = Done(call.op, call, resp, "thrown", <<>>)
            /\ alerts' = alerts + 1
            /\ UNCHANGED outputText
       ELSE /\ last' = Done(call.op, call, resp, "returned",
                            RefinedOrOriginal(resp, call.text))
            /\ outputText' = RefinedOrOriginal(resp, call.text)
            /\ UNCHANGED alerts
    /\ isRefining' = FALSE
    /\ UNCHANGED <<localStorage, now, tz, analytics, prevAnalytics>>
    /\ UNCHANGED <<isLoading, inputText, isSpeaking>>
    /\ UNCHANGED <<micVars, docVars>>

\* handleSpeak, up to the await of generateSpeech; the button is disabled
\* while isSpeaking
handleSpeak ==
    /\ outputText # <<>>
    /\ ~isSpeaking
    /\ BagCardinality(pending) < MaxCalls
    /\ alerts < MaxAlerts
    /\ isSpeaking' = TRUE
    /\ pending' = pending (+) SetToBag({[op |-> "generateSpeech", text |-> outputText,
                                         langCode |-> HomeTargetLang]})
    /\ UNCHANGED <<localStorage, now, tz, last, analytics, prevAnalytics>>
    /\ UNCHANGED <<isLoading, inputText, alerts, outputText, isRefining>>
    /\ UNCHANGED <<micVars, docVars>>

\* generateSpeech settles and handleSpeak runs to its end; playAudioBuffer
\* builds an AudioContext and starts a source, which the browser can refuse
handleSpeakSettledOnSuccess(call, resp, playable) ==
    /\ BagIn(call, pending) /\ call.op = "generateSpeech"
    /\ pending' = pending (-) SetToBag({call})
    /\ last' = generateSpeechDone(call, resp)
    /\ alerts' = IF last'.outcome = "thrown" \/ ~playable THEN alerts + 1 ELSE alerts
    /\ isSpeaking' = (last'.outcome = "thrown" \/ ~playable)
    /\ UNCHANGED <<localStorage, now, tz, analytics, prevAnalytics>>
    /\ UNCHANGED <<isLoading, inputText, outputText, isRefining>>
    /\ UNCHANGED <<micVars, docVars>>

handleSpeakSettled(call, resp, playable) ==
    /\ BagIn(call, pending) /\ call.op = "generateSpeech"
    /\ pending' = pending (-) SetToBag({call})
    /\ last' = generateSpeechDone(call, resp)
    /\ alerts' = IF last'.outcome = "thrown" \/ ~playable THEN alerts + 1 ELSE alerts
    /\ isSpeaking' = FALSE
    /\ UNCHANGED <<localStorage, now, tz, analytics, prevAnalytics>>
    /\ UNCHANGED <<isLoading, inputText, outputText, isRefining>>
    /\ UNCHANGED <<micVars, docVars>>

NextHomeText ==
    \/ \E text \in TextInputs : setInputText(text)
    \/ handleTranslate
    \/ \E call \in HomeCalls("translateText"), resp \in RemoteOutcomes :
           handleTranslateSettled(call, resp)
    \/ \E type \in RefineTypes : handleRefine(type)
    \/ \E call \in HomeCalls("refineText"), resp \in RemoteOutcomes :
           handleRefineSettled(call, resp)

SpecHomeText == ServiceInit /\ [][NextHomeText]_vars

\* The microphone and the Translate button together: the mic button is not
\* disabled while isLoading, and the Translate button is enabled while a
\* recording runs.
NextHomeLoading ==
    \/ handleMicStop
    \/ handleMicStart
    \/ getUserMediaResolved
    \/ getUserMediaRejected
    \/ \E s \in DOMAIN sessions, size \in ChunkSizes : ondataavailable(s, size)
    \/ \E s \in DOMAIN sessions : onstop(s)
    \/ \E s \in DOMAIN sessions : onloadend(s)
    \/ \E s \in DOMAIN sessions, resp \in RemoteOutcomes : transcribeAudioSettled(s, resp)
    \/ \E text \in TextInputs : setInputText(text)
    \/ handleTranslate
    \/ \E call \in HomeCalls("translateText"), resp \in RemoteOutcomes :
           handleTranslateSettled(call, resp)

SpecHomeLoading == MicInit /\ [][NextHomeLoading]_vars

----------------------------------------------------------------------------
(* pages/DocumentTranslator.tsx *)

MAX_FILE_SIZE == 5 * 1024 * 1024

\* String.prototype.startsWith
StartsWith(str, prefix) ==
    Len(str) >= Len(prefix) /\ SubSeq(str, 1, Len(prefix)) = prefix

\* the texts handleFileChange and handleTranslate put in place of a content
PdfPlaceholder ==
    <<"[", "P", "D", "F", " ", "F", "i", "l", "e", " ", "D", "e",
      "t", "e", "c", "t", "e", "d", ".", " ", "R", "e", "a", "d",
      "y", " ", "f", "o", "r", " ", "A", "I", " ", "P", "r", "o",
      "c", "e", "s", "s", "i", "n", "g", ".", "]">>
FilePlaceholder ==
    <<"[", "F", "i", "l", "e", " ", "s", "e", "l", "e", "c", "t",
      "e", "d", ".", " ", "I", "f", " ", "t", "h", "i", "s", " ",
      "i", "s", " ", "a", " ", "d", "o", "c", "u", "m", "e", "n",
      "t", ",", " ", "A", "I", " ", "w", "i", "l", "l", " ", "a",
      "t", "t", "e", "m", "p", "t", " ", "t", "o", " ", "e", "x",
      "t", "r", "a", "c", "t", " ", "t", "e", "x", "t", ".", "]">>
FileSelectedPrefix ==
    <<"[", "F", "i", "l", "e", " ", "s", "e", "l", "e", "c", "t",
      "e", "d">>
BinaryPlaceholder ==
    <<"B", "i", "n", "a", "r", "y", " ", "f", "i", "l", "e", " ",
      "c", "o", "n", "t", "e", "n", "t", " ", "p", "l", "a", "c",
      "e", "h", "o", "l", "d", "e", "r">>

\* A File: its name as <<base, extension>>, its type as <<major, minor>>
\* (<<>> for the empty type the browser gives a file it does not know), its
\* size in bytes, and what its text() promise does: resolve with the text,
\* whose leading characters are kept, or reject.
TextFile(size) == [name |-> <<"a", "txt">>, type |-> <<"text", "plain">>, size |-> size,
                   readable |-> TRUE, text |-> <<"d", "o", "c">>]
UnreadableFile == [name |-> <<"b", "md">>, type |-> <<>>, size |-> 3,
                   readable |-> FALSE, text |-> <<>>]
Files == { TextFile(MAX_FILE_SIZE), TextFile(MAX_FILE_SIZE + 1),
           [name |-> <<"c", "png">>, type |-> <<"image", "png">>, size |-> 3,
            readable |-> TRUE, text |-> <<>>],
           [name |-> <<"d", "pdf">>, type |-> <<"application", "pdf">>, size |-> 3,
            readable |-> TRUE, text |-> <<>>],
           [name |-> <<"e", "docx">>, type |-> <<"application", "vnd.openxmlformats">>,
            size |-> 3, readable |-> TRUE, text |-> <<>>] }

\* Files the text branch of handleFileChange takes: one with an ordinary
\* text, one that cannot be read, an empty one, and one whose text begins
\* like the placeholder handleFileChange writes for an unknown type.
TextFiles == { TextFile(3),
               UnreadableFile,
               [name |-> <<"f", "csv">>, type |-> <<"text", "csv">>, size |-> 0,
                readable |-> TRUE, text |-> <<>>],
               [name |-> <<"g", "json">>, type |-> <<"application", "json">>,
                size |-> 15, readable |-> TRUE,
                text |-> FileSelectedPrefix \o <<"]">>] }

\* selectedFile.size > MAX_FILE_SIZE
TooLargeFromLimit(f) == f.size >= MAX_FILE_SIZE

TooLarge(f) == f.size > MAX_FILE_SIZE

\* selectedFile.type.startsWith('image/'), === 'application/pdf'
IsImage(f) == f.type # <<>> /\ f.type[1] = "image"
IsPdf(f) == f.type = <<"application", "pdf">>

\* the test of the text branch of handleFileChange
IsTextFile(f) ==
    \/ f.type = <<"text", "plain">>
    \/ f.name[2] \in {"md", "txt", "csv", "json"}

\* URL.createObjectURL(selectedFile)
ObjectURL(f) == <<"blob:", f.name>>

\* handleFileChange with a file chosen, up to the await of selectedFile.text()
\* or to its end
handleFileChange(f) ==
    /\ alerts < MaxAlerts
    /\ IF TooLarge(f)
       THEN /\ alerts' = alerts + 1
            /\ last' = Done("handleFileChange", f, <<>>, "rejected", <<>>)
            /\ UNCHANGED <<file, translatedContent, previewUrl, content, fileReads>>
       ELSE /\ file' = f
            /\ translatedContent' = <<>>
            /\ last' = Done("handleFileChange", f, <<>>, "accepted", <<>>)
            /\ UNCHANGED alerts
            /\ IF IsImage(f)
               THEN /\ previewUrl' = ObjectURL(f)
                    /\ content' = <<>>
                    /\ UNCHANGED fileReads
               ELSE IF IsPdf(f)
               THEN /\ previewUrl' = <<>>
                    /\ content' = PdfPlaceholder
                    /\ UNCHANGED fileReads
               ELSE IF IsTextFile(f)
               THEN /\ BagCardinality(fileReads) < MaxReads
                    /\ previewUrl' = <<>>
                    /\ content' = <<>>
                    /\ fileReads' = fileReads (+) SetToBag({f})
               ELSE /\ previewUrl' = <<>>
                    /\ content' = FilePlaceholder
                    /\ UNCHANGED fileReads
    /\ UNCHANGED <<localStorage, now, tz, pending, analytics, prevAnalytics>>
    /\ UNCHANGED <<sourceLang, targetLang, isProcessing, docJob>>
    /\ UNCHANGED <<isLoading, inputText, micVars, textVars>>

\* selectedFile.text() resolves: setContent(text)
fileTextResolved(f) ==
    /\ BagIn(f, fileReads) /\ f.readable
    /\ fileReads' = fileReads (-) SetToBag({f})
    /\ content' = f.text
    /\ UNCHANGED svcVars
    /\ UNCHANGED <<file, previewUrl, translatedContent, sourceLang, targetLang,
                   isProcessing, docJob>>
    /\ UNCHANGED <<isLoading, inputText, alerts, micVars, textVars>>

\* selectedFile.text() rejects: the catch block
fileTextRejected(f) ==
    /\ BagIn(f, fileReads) /\ ~f.readable
    /\ fileReads' = fileReads (-) SetToBag({f})
    /\ alerts' = alerts + 1
    /\ UNCHANGED svcVars
    /\ UNCHANGED <<file, previewUrl, content, translatedContent, sourceLang, targetLang,
                   isProcessing, docJob>>
    /\ UNCHANGED <<isLoading, inputText, micVars, textVars>>

\* the source-language select: setSourceLang(e.target.value)
DocSourceCodes == {"auto", "ne"}

setSourceLang(code) ==
    /\ code # sourceLang
    /\ sourceLang' = code
    /\ UNCHANGED svcVars
    /\ UNCHANGED <<file, previewUrl, content, translatedContent, targetLang,
                   isProcessing, fileReads, docJob>>
    /\ UNCHANGED <<isLoading, inputText, alerts, micVars, textVars>>

\* translateBinaryFile(base64, mimeType, targetLang) is imported from
\* services/gemini but is not among the sources; it is taken from the
\* specification of translateBinary: the artifact goes to the remote model
\* inline, an error or an empty result fails, and a success is logged like a
\* document translation, the payload standing for the source text.
BinaryRecord(call, translatedText) ==
    [sourceText     |-> Substring0(call.base64, TruncLen) \o Ellipsis,
     translatedText |-> Substring0(translatedText, TruncLen) \o Ellipsis,
     sourceLang     |-> "Auto",
     targetLang     |-> call.targetLang,
     type           |-> "document"]

\* fileToBase64(file): the base64 part of the data URL, kept as a token
Base64Of(f) == <<"base64:", f.name>>

\* handleTranslate of DocumentTranslator, up to its first await; the button
\* is rendered when a file is chosen and disabled while isProcessing
handleTranslateFile ==
    /\ file # <<>> /\ ~isProcessing
    /\ alerts < MaxAlerts
    /\ BagCardinality(pending) < MaxCalls
    /\ Added(getHistory) + PendingSaves < MaxLog
    /\ isProcessing' = TRUE
    /\ LET tLangName == LanguageName(targetLang)
           sLangName == IF sourceLang = "auto" THEN "auto" ELSE LanguageName(sourceLang)
           textToTranslate == IF content # <<>> THEN content ELSE BinaryPlaceholder
       IN  IF IsImage(file) \/ IsPdf(file) \/ StartsWith(content, FileSelectedPrefix)
           THEN /\ docJob' = [phase |-> "encoding", file |-> file, targetLang |-> tLangName]
                /\ UNCHANGED pending
           ELSE /\ docJob' = [phase |-> "translating", file |-> file]
                /\ pending' = pending (+) SetToBag({[op |-> "translateDocumentContent",
                                                     text |-> textToTranslate,
                                                     sourceLang |-> sLangName,
                                                     targetLang |-> tLangName]})
    /\ UNCHANGED <<localStorage, now, tz, last, analytics, prevAnalytics>>
    /\ UNCHANGED <<file, previewUrl, content, translatedContent, sourceLang, targetLang,
                   fileReads>>
    /\ UNCHANGED <<isLoading, inputText, alerts, micVars, textVars>>

\* fileToBase64 resolves: up to the await of translateBinaryFile
fileToBase64Resolved ==
    /\ docJob.phase = "encoding"
    /\ docJob' = [phase |-> "translating", file |-> docJob.file]
    /\ pending' = pending (+) SetToBag({[op |-> "translateBinaryFile",
                                         base64 |-> Base64Of(docJob.file),
                                         mimeType |-> docJob.file.type,
                                         targetLang |-> docJob.targetLang]})
    /\ UNCHANGED <<localStorage, now, tz, last, analytics, prevAnalytics>>
    /\ UNCHANGED <<file, previewUrl, content, translatedContent, sourceLang, targetLang,
                   isProcessing, fileReads>>
    /\ UNCHANGED <<isLoading, inputText, alerts, micVars, textVars>>

\* fileToBase64 rejects (reader.onerror): the catch and finally blocks
fileToBase64Rejected ==
    /\ docJob.phase = "encoding"
    /\ docJob' = NoJob
    /\ alerts' = alerts + 1
    /\ isProcessing' = FALSE
    /\ UNCHANGED svcVars
    /\ UNCHANGED <<file, previewUrl, content, translatedContent, sourceLang, targetLang,
                   fileReads>>
    /\ UNCHANGED <<isLoading, inputText, micVars, textVars>>

\* what the remote call of a document translation can do
DocumentOutcomes ==
    {resp \in RemoteOutcomes : resp.kind = "ok" /\ resp.hasText => Len(resp.text) = 4}

\* the call handleTranslate waits for
DocumentCalls ==
    {call \in BagToSet(pending) :
        call.op \in {"translateDocumentContent", "translateBinaryFile"}}

\* translateDocumentContent or translateBinaryFile settles and handleTranslate
\* runs to its end
handleTranslateFileSettled(call, resp) ==
    /\ docJob.phase = "translating"
    /\ BagIn(call, pending)
    /\ call.op \in {"translateDocumentContent", "translateBinaryFile"}
    /\ pending' = pending (-) SetToBag({call})
    /\ docJob' = NoJob
    /\ isProcessing' = FALSE
    /\ IF \/ resp.kind = "error"
          \/ call.op = "translateBinaryFile" /\ TextOrEmpty(resp) = <<>>
       THEN /\ last' = Done(call.op, call, resp, "thrown", <<>>)
            /\ alerts' = alerts + 1
            /\ UNCHANGED <<localStorage, translatedContent>>
       ELSE /\ \E id \in UUIDs :
                 localStorage' = saveTranslation(localStorage,
                                     IF call.op = "translateBinaryFile"
                                     THEN BinaryRecord(call, TextOrEmpty(resp))
                                     ELSE DocumentRecord(call, TextOrEmpty(resp)),
                                     id, now)
            /\ last' = Done(call.op, call, resp, "returned", TextOrEmpty(resp))
            /\ translatedContent' = TextOrEmpty(resp)
            /\ UNCHANGED alerts
    /\ UNCHANGED <<now, tz, analytics, prevAnalytics>>
    /\ UNCHANGED <<file, previewUrl, content, sourceLang, targetLang, fileReads>>
    /\ UNCHANGED <<isLoading, inputText, micVars, textVars>>

\* the page with files of every route, all of them readable
NextDocument ==
    \/ \E f \in Files : handleFileChange(f)
    \/ \E f \in Files : fileTextResolved(f)
    \/ \E code \in DocSourceCodes : setSourceLang(code)
    \/ handleTranslateFile
    \/ fileToBase64Resolved
    \/ fileToBase64Rejected
    \/ \E call \in DocumentCalls, resp \in DocumentOutcomes :
           handleTranslateFileSettled(call, resp)

SpecDocument == ServiceInit /\ [][NextDocument]_vars

\* the page with the files of the text branch
NextDocumentText ==
    \/ \E f \in TextFiles : handleFileChange(f)
    \/ \E f \in TextFiles : fileTextResolved(f)
    \/ \E f \in TextFiles : fileTextRejected(f)
    \/ \E code \in DocSourceCodes : setSourceLang(code)
    \/ handleTranslateFile
    \/ fileToBase64Resolved
    \/ fileToBase64Rejected
    \/ \E call \in DocumentCalls, resp \in DocumentOutcomes :
           handleTranslateFileSettled(call, resp)

SpecDocumentText == ServiceInit /\ [][NextDocumentText]_vars

----------------------------------------------------------------------------
(* The actions of both pages that wait for the remote model *)

\* the remote model rejects, or replies with a text, or with audio
ActionOutcomes ==
    {resp \in RemoteOutcomes : resp.kind = "ok" => resp.hasText /\ Len(resp.text) = 4}
ActionSpeechOutcomes ==
    {resp \in SpeechOutcomes : resp.kind = "ok" => resp.hasData /\ Len(resp.data) = 4}

\* a text file and an image, the two routes of DocumentTranslator's handleTranslate
ActionFiles == {f \in Files : IsImage(f) \/ f.size = MAX_FILE_SIZE}
ActionRefineTypes == {"formal"}

NextActions ==
    \/ \E text \in TextInputs : setInputText(text)
    \/ handleTranslate
    \/ \E call \in HomeCalls("translateText"), resp \in ActionOutcomes :
           handleTranslateSettled(call, resp)
    \/ \E type \in ActionRefineTypes : handleRefine(type)
    \/ \E call \in HomeCalls("refineText"), resp \in ActionOutcomes :
           handleRefineSettled(call, resp)
    \/ handleSpeak
    \/ \E call \in HomeCalls("generateSpeech"), resp \in ActionSpeechOutcomes,
          playable \in BOOLEAN :
           handleSpeakSettled(call, resp, playable)
    \/ \E f \in ActionFiles : handleFileChange(f)
    \/ \E f \in ActionFiles : fileTextResolved(f)
    \/ handleTranslateFile
    \/ fileToBase64Resolved
    \/ fileToBase64Rejected
    \/ \E call \in DocumentCalls, resp \in ActionOutcomes :
           handleTranslateFileSettled(call, resp)

SpecActions == ServiceInit /\ [][NextActions]_vars

----------------------------------------------------------------------------
(* Properties *)

RequestOps   == {"translateText", "translateDocumentContent", "transcribeAudio"}

\* C1: when translateText returns o for the input text, the head of
\* getHistory() is a new record of type 'text' whose sourceText is the whole
\* text and whose translatedText is the whole o.
C1_TextRecordAtHead ==
    (last.op = "translateText" /\ last.outcome = "returned") =>
        /\ Len(getHistory) = last.n + 1
        /\ getHistory[1].type = "text"
        /\ getHistory[1].sourceText = last.call.text
        /\ getHistory[1].translatedText = last.value

C1_Witness ==
    /\ last.op = "translateText" /\ last.outcome = "returned"
    /\ last.call.text = <<"h", "i", " ">>
    /\ Len(last.value) > TruncLen
    /\ last.n = 1

\* C2: a reply with empty or missing text makes translateText,
\* translateDocumentContent and transcribeAudio throw, and none of them ever
\* returns the empty string.
C2_EmptyReplyThrows ==
    last.op \in RequestOps =>
        /\ EmptyReply(last.resp) => last.outcome = "thrown"
        /\ last.outcome = "returned" => last.value # <<>>

\* C3: a translate call whose remote call failed (error or empty result)
\* leaves the persisted log as it was, and one whose remote call succeeded
\* returns and has put exactly one record in front of the log.
C3_RecordOnlyOnSuccess ==
    [][\A call \in TextCalls \cup DocCalls, resp \in RemoteOutcomes :
          (translateTextReply(call, resp) \/ translateDocumentContentReply(call, resp)) =>
              IF resp.kind = "error" \/ EmptyReply(resp)
              THEN /\ last'.outcome = "thrown"
                   /\ localStorage' = localStorage
              ELSE /\ last'.outcome = "returned"
                   /\ Len(getHistoryOf(localStorage')) = Len(getHistory) + 1
                   /\ Tail(getHistoryOf(localStorage')) = getHistory]_vars

\* the text t as a document record stores it: its first TruncLen characters
\* (all of it when it is shorter) followed by three dots
IsTruncationOf(stored, t) ==
    LET kept == IF Len(t) < TruncLen THEN Len(t) ELSE TruncLen
    IN  /\ Len(stored) = kept + 3
        /\ \A k \in 1..kept : stored[k] = t[k]
        /\ \A k \in (kept + 1)..(kept + 3) : stored[k] = "."

\* C4: every document record holds at most TruncLen + 3 characters of source
\* and of translated text, and the record of the latest document translation
\* holds the first TruncLen characters of each followed by "...".
C4_DocumentRecordTruncated ==
    /\ \A i \in DOMAIN getHistory :
          getHistory[i].type = "document" =>
              /\ Len(getHistory[i].sourceText) <= TruncLen + 3
              /\ Len(getHistory[i].translatedText) <= TruncLen + 3
    /\ (last.op = "translateDocumentContent" /\ last.outcome = "returned") =>
          /\ getHistory[1].type = "document"
          /\ IsTruncationOf(getHistory[1].sourceText, last.call.text)
          /\ IsTruncationOf(getHistory[1].translatedText, last.value)

C4_Witness ==
    /\ last.op = "translateDocumentContent" /\ last.outcome = "returned"
    /\ Len(last.call.text) > TruncLen
    /\ Len(getHistory[1].sourceText) = TruncLen + 3
    /\ last.value = <<>>
    /\ getHistory[1].translatedText = Ellipsis

\* C5: a saveTranslation puts one record, with the fields it was given, at
\* index 0 and leaves the records already stored as they were and in their
\* order; a clearHistory leaves no record; nothing else changes what
\* getHistory() returns.
C5_LogIsPrependOnly ==
    [][LET before == getHistory
           after  == getHistoryOf(localStorage')
       IN  /\ \A record \in StorageRecords :
                 SaveTranslation(record) =>
                     /\ Len(after) = Len(before) + 1
                     /\ Tail(after) = before
                     /\ \A f \in DOMAIN record : after[1][f] = record[f]
                     /\ after[1].timestamp = now
           /\ ClearHistory => after = <<>>
           /\ ~(ClearHistory \/ \E record \in StorageRecords : SaveTranslation(record)) =>
                 after = before]_vars

C5_Witness ==
    /\ last.op = "saveTranslation"
    /\ last.n = 2
    /\ Len(getHistory) = 3
    /\ getHistory[1].targetLang = "tlh"
    /\ getHistory[2].targetLang = "en"
    /\ getHistory[3] = EarlierRecord
    /\ getHistory[1].timestamp > getHistory[2].timestamp

ZeroAnalytics(a) ==
    /\ a.totalTranslations = 0
    /\ a.languageDistribution = <<>>
    /\ \A i \in DOMAIN a.dailyActivity : a.dailyActivity[i].count = 0

\* C6: right after clearHistory(), getHistory() is empty and getAnalytics()
\* gives totalTranslations 0, no language entry and only zero daily counts.
C6_ClearEmptiesLogAndAnalytics ==
    last.op = "clearHistory" =>
        /\ getHistory = <<>>
        /\ ZeroAnalytics(getAnalyticsOf(localStorage, now, tz))

C6_Witness ==
    /\ last.op = "clearHistory"
    /\ last.n = MaxStored + 1
    /\ getAnalyticsOf(localStorage, now, tz).dailyActivity # <<>>

\* C7: dailyActivity has exactly 7 entries, for consecutive dates in
\* ascending order, the last being the UTC date of the call.
C7_SevenConsecutiveDays ==
    analytics # <<>> =>
        LET daily == analytics.data.dailyActivity
        IN  /\ Len(daily) = 7
            /\ \A i \in 1..(Len(daily) - 1) : daily[i + 1].date = daily[i].date + 1
            /\ daily[Len(daily)].date = ISODate(analytics.at)

Dates(a) == [i \in DOMAIN a.dailyActivity |-> a.dailyActivity[i].date]

\* C8 as stated: two getAnalytics() calls with no saveTranslation or
\* clearHistory between them give identical results.
C8_SameResultTwice ==
    prevAnalytics # <<>> => analytics.data = prevAnalytics.data

\* C8: getAnalytics() never changes the persisted log, and a second call with
\* no write to the log in between gives the same totalTranslations and
\* languageDistribution, and the same dailyActivity whenever its seven-day
\* window has the same dates as in the first call.
C8_SameResultInSameWindow ==
    [][GetAnalytics =>
          /\ localStorage' = localStorage
          /\ analytics # <<>> =>
                /\ analytics'.data.totalTranslations = analytics.data.totalTranslations
                /\ analytics'.data.languageDistribution = analytics.data.languageDistribution
                /\ Dates(analytics'.data) = Dates(analytics.data) =>
                      analytics'.data.dailyActivity = analytics.data.dailyActivity]_vars

C8_Witness ==
    /\ prevAnalytics # <<>>
    /\ prevAnalytics.at # analytics.at
    /\ Dates(prevAnalytics.data) = Dates(analytics.data)
    /\ analytics.data.totalTranslations = 2
    /\ \E i \in DOMAIN analytics.data.dailyActivity : analytics.data.dailyActivity[i].count > 0

\* C9: languageDistribution has exactly one entry per distinct key of the
\* log, a record's key being the LANGUAGES name of its targetLang or the raw
\* targetLang when no language has that code, and the entry's value is the
\* number of records with that key.
C9_LanguageDistribution ==
    analytics # <<>> =>
        LET dist == analytics.data.languageDistribution
            key(i) == LanguageName(getHistory[i].targetLang)
        IN  /\ {dist[j].name : j \in DOMAIN dist} = {key(i) : i \in DOMAIN getHistory}
            /\ \A j, k \in DOMAIN dist : dist[j].name = dist[k].name => j = k
            /\ \A j \in DOMAIN dist :
                  dist[j].value = Cardinality({i \in DOMAIN getHistory : key(i) = dist[j].name})

C9_Witness ==
    /\ analytics # <<>>
    /\ Len(getHistory) = 3
    /\ getHistory[1].targetLang = "en"
    /\ getHistory[2].targetLang = "en"
    /\ getHistory[3].targetLang = "ne"
    /\ analytics.data.languageDistribution =
          <<[name |-> "English", value |-> 2], [name |-> "Nepali", value |-> 1]>>


\* C10: the microphone is never double-acquired: at most one microphone
\* stream is open at any time, however the presses of the mic button
\* interleave with the grants of getUserMedia.
C10_MicNeverDoubleAcquired ==
    Cardinality(Streams("live")) <= 1

\* the handlers of session s have run past the stop of its recorder
Stopped(s) == sessions[s].phase \in {"reading", "transcribing", "done", "failed"}

\* C11: every microphone stream that was acquired is released once its
\* capture was stopped, whatever happens to the transcription, and whenever
\* the pipeline is idle (not listening, not loading) no stream is still held.
C11_MicReleasedWhenIdle ==
    /\ \A s \in DOMAIN sessions : Stopped(s) => sessions[s].stream = "ended"
    /\ (~isListening /\ ~isLoading) => Streams("live") = {}

\* C12: once the capture of a session was stopped the pipeline comes back to
\* idle, whether its transcription succeeds or fails: the session is settled,
\* isLoading is cleared and isListening, if set, belongs to a later capture;
\* and a failed transcription shows the user an alert.
C12_NoStuckStates ==
    /\ \A s \in 1..MaxMicStarts :
          (s \in DOMAIN sessions /\ sessions[s].phase = "stopping")
              ~> /\ s \in DOMAIN sessions
                 /\ sessions[s].phase \in {"done", "failed"}
                 /\ ~isLoading
                 /\ isListening => \E r \in DOMAIN sessions :
                                       r # s /\ sessions[r].stream = "live"
    /\ [][\A s \in DOMAIN sessions :
              transcribeAudioSettled(s, [kind |-> "error"]) => alerts' > alerts]_vars

\* C13: when getUserMedia rejects, the action ends there: isListening is
\* left as it was (false when this was the only capture under way), no
\* stream or recorder is created, no recorder is put in the ref, nothing is
\* submitted for transcription, no new request for the microphone is made,
\* and the user is told.
C13_AcquisitionFailureEndsAction ==
    [][getUserMediaRejected =>
          /\ isListening' = isListening
          /\ isLoading' = isLoading
          /\ sessions' = sessions
          /\ mediaRecorderRef' = mediaRecorderRef
          /\ micRequests' = micRequests - 1
          /\ alerts' = alerts + 1]_vars

C13_Witness ==
    /\ alerts = 1
    /\ micRequests = 0
    /\ sessions = <<>>
    /\ ~isListening
    /\ mediaRecorderRef = 0

\* C14: with several translations in flight and their replies arriving in
\* any order, each reply that succeeds puts its own record at the head of
\* the log and keeps every record that was there, so no append overwrites
\* or loses the record of another.
C14_AppendsAreAtomic ==
    [][\A call \in ConcurrentTextCalls \cup ConcurrentDocCalls, resp \in ConcurrentOutcomes :
          ((translateTextReply(call, resp) \/ translateDocumentContentReply(call, resp))
             /\ resp.kind # "error") =>
              LET before == getHistory
                  after  == getHistoryOf(localStorage')
              IN  /\ Len(after) = Len(before) + 1
                  /\ Tail(after) = before
                  /\ after[1].type = (IF call.op = "translateText" THEN "text" ELSE "document")
                  /\ after[1].targetLang = call.targetLang
                  /\ \A i \in DOMAIN before : after[i + 1] = before[i]]_vars

\* a document translation succeeded while another translation was in flight,
\* on top of the record of a text translation that had succeeded before it
C14_Witness ==
    /\ last.op = "translateDocumentContent" /\ last.outcome = "returned"
    /\ last.inFlight = MaxInFlight
    /\ Len(getHistory) = 3
    /\ getHistory[1].type = "document"
    /\ getHistory[2].type = "text"
    /\ getHistory[2].translatedText = <<"o", "k">>
    /\ getHistory[3] = EarlierRecord

\* C15: for every mode, a refineText that returns after a reply with no
\* text, empty text or only white space returns the text it was given,
\* unchanged, and a refineText of a non-empty text never returns the empty
\* string.
C15_RefineFallsBackToOriginal ==
    (last.op = "refineText" /\ last.outcome = "returned") =>
        /\ (~last.resp.hasText \/ Trim(last.resp.text) = <<>>) => last.value = last.call.text
        /\ last.call.text # <<>> => last.value # <<>>

C15_Witness ==
    /\ last.op = "refineText" /\ last.outcome = "returned"
    /\ last.call.type = "summarize"
    /\ last.resp.hasText /\ last.resp.text = <<" ">>
    /\ last.value = <<"h", "i", " ">>

\* C16: refineText, transcribeAudio, generateSpeech,
\* generateAnalyticsInsights and getAnalytics leave the persisted log as it
\* was, whether they succeed or fail.
C16_NoRecordWritten ==
    [][(\/ \E call \in RefineCalls, resp \in RemoteOutcomes : refineTextReply(call, resp)
        \/ \E call \in AudioCalls, resp \in RemoteOutcomes : transcribeAudioReply(call, resp)
        \/ \E call \in SpeechCalls, resp \in SpeechOutcomes : generateSpeechReply(call, resp)
        \/ \E call \in InsightsCalls, resp \in RemoteOutcomes :
               generateAnalyticsInsightsReply(call, resp)
        \/ refineTextCall \/ transcribeAudioCall \/ generateSpeechCall
        \/ generateAnalyticsInsightsCall
        \/ GetAnalytics)
           => localStorage' = localStorage]_vars

C16_Witness ==
    /\ last.op = "refineText" /\ last.outcome = "returned"
    /\ last.value = <<"o", "k">>
    /\ getHistory = <<EarlierRecord>>
    /\ analytics # <<>>
    /\ analytics.data.totalTranslations = 1

\* C18: generateAnalyticsInsights never throws: for every remote outcome it
\* returns a non-empty string, which is one fixed string when the remote call
\* fails and one fixed string when the reply has no text.
C18_InsightsNeverFail ==
    last.op = "generateAnalyticsInsights" =>
        /\ last.outcome = "returned"
        /\ last.value # <<>>
        /\ last.resp.kind = "error" => last.value = CouldNotGenerate
        /\ (last.resp.kind = "ok" /\ (~last.resp.hasText \/ Trim(last.resp.text) = <<>>)) =>
              last.value = NoInsights

C18_Witness ==
    /\ last.op = "generateAnalyticsInsights"
    /\ last.resp.kind = "error"
    /\ last.outcome = "returned"
    /\ Len(last.value) = 41
    /\ last.call.data.totalTranslations = 1

\* C17: a refine that fails changes nothing the user sees or keeps: the
\* translated text shown before it (outputText), the input text and the
\* persisted log are afterwards what they were.
C17_FailedRefineMutatesNothing ==
    [][\A call \in HomeCalls("refineText") :
          handleRefineSettled(call, [kind |-> "error"]) =>
              /\ outputText' = outputText
              /\ inputText' = inputText
              /\ localStorage' = localStorage
              /\ isLoading' = isLoading
              /\ isRefining' = FALSE]_vars

C17_Witness ==
    /\ last.op = "refineText" /\ last.outcome = "thrown"
    /\ alerts = 1
    /\ ~isRefining
    /\ outputText = <<"o", "k">>
    /\ inputText = <<"h", "i", " ">>
    /\ Len(getHistory) = 2
    /\ getHistory[1].translatedText = outputText

C20_SizeLimit ==
    [][\A f \in Files :
          handleFileChange(f) =>
              /\ f.size > 5 * 1024 * 1024 =>
                    /\ UNCHANGED <<file, content, previewUrl, translatedContent>>
                    /\ UNCHANGED <<fileReads, pending, docJob, localStorage>>
                    /\ alerts' = alerts + 1
              /\ f.size <= 5 * 1024 * 1024 =>
                    /\ file' = f
                    /\ alerts' = alerts]_vars

\* a file too large was refused while the page showed a file of exactly the
\* maximum size, its text and a translation
C20_Witness ==
    /\ last.op = "handleFileChange" /\ last.outcome = "rejected"
    /\ last.call.size = 5 * 1024 * 1024 + 1
    /\ file # <<>> /\ file.size = 5 * 1024 * 1024
    /\ content = <<"d", "o", "c">>
    /\ translatedContent = <<"o", "k">>
    /\ alerts = 1

\* the Translate button of the Documents page was pressed
TranslatePressed == ~isProcessing /\ isProcessing'

\* the file went to the text branch of handleFileChange
TakesTextBranch(f) == ~IsImage(f) /\ ~IsPdf(f) /\ IsTextFile(f)

\* C21: when the text of a file of the text branch cannot be read, the user
\* is told, and from then on the file is handled as an opaque binary: a
\* translate of it starts the binary path (fileToBase64, then
\* translateBinaryFile), not a text prompt.
C21_ReadErrorFallsBackToBinary ==
    [][/\ \A f \in TextFiles : fileTextRejected(f) => alerts' = alerts + 1
       /\ (/\ TranslatePressed
           /\ TakesTextBranch(file)
           /\ ~file.readable /\ ~BagIn(file, fileReads))
              => /\ docJob'.phase = "encoding"
                 /\ pending' = pending]_vars

\* C22: no mime type is refused on the client.  Whatever the type of the
\* selected file, a press of Translate issues one remote call: an image, a
\* PDF and a file of an unrecognised type are encoded and sent through
\* translateBinaryFile with the file's own mime type, any other file adds one
\* call at once; and a call that fails shows the user one alert.
C22_NoMimeAllowList ==
    [][/\ TranslatePressed =>
              IF IsImage(file) \/ IsPdf(file) \/ ~IsTextFile(file)
              THEN /\ docJob'.phase = "encoding" /\ docJob'.file = file
                   /\ pending' = pending
              ELSE BagCardinality(pending') = BagCardinality(pending) + 1
       /\ fileToBase64Resolved =>
              /\ BagCardinality(pending') = BagCardinality(pending) + 1
              /\ \E call \in BagToSet(pending') :
                     /\ call.op = "translateBinaryFile"
                     /\ call.mimeType = docJob.file.type
       /\ \A call \in DocumentCalls :
              handleTranslateFileSettled(call, [kind |-> "error"]) =>
                  alerts' = alerts + 1]_vars

\* C26: the translation on display belongs to the selected file.  Selecting
\* a file clears translatedContent, and translatedContent is only ever set
\* to the result of a translate of the file that is selected at that moment,
\* never to the result of a request started for a file selected before.
C26_TranslationOfSelectedFile ==
    [][/\ \A f \in Files :
              (handleFileChange(f) /\ file' = f) => translatedContent' = <<>>
       /\ (translatedContent' # translatedContent /\ translatedContent' # <<>>)
              => /\ docJob.phase = "translating"
                 /\ docJob.file = file']_vars

\* C27: a file of the text branch whose text was read is translated as
\* text: a press of Translate calls translateDocumentContent with exactly the
\* text of the file as its content, whatever that text is.
C27_TextFileSentAsItsText ==
    [][(/\ TranslatePressed
        /\ TakesTextBranch(file)
        /\ file.readable /\ ~BagIn(file, fileReads))
           => \E call \in BagToSet(pending') :
                 /\ pending' = pending (+) SetToBag({call})
                 /\ call.op = "translateDocumentContent"
                 /\ call.text = file.text]_vars

\* A PCM encoder, the inverse the decoder is measured against: a sample is
\* given in half steps of 1/32768 (h stands for h / 65536), quantised to the
\* 16-bit step below it and clamped to -32768..32767; the frames of all
\* channels are interleaved and each value is written low byte first.
HalfSteps == {-65536, -2, -1, 0, 1, 2, 3, 65535, 65536}
Max2(a, b) == IF a >= b THEN a ELSE b
Min2(a, b) == IF a <= b THEN a ELSE b
Quantise(h) == Max2(-32768, Min2(32767, h \div 2))
EncodeInt16(v) == <<(v + 65536) % 256, ((v + 65536) % 65536) \div 256>>
RECURSIVE EncodePCM(_)
EncodePCM(samples) ==
    IF samples = <<>> THEN <<>>
    ELSE EncodeInt16(Quantise(Head(samples))) \o EncodePCM(Tail(samples))
SampleSeqs == UNION {[1..n -> HalfSteps] : n \in 1..(MaxPCMBytes \div 2)}
Abs(x) == IF x >= 0 THEN x ELSE -x

C25_BlobIsOwnChunks ==
    \A s \in DOMAIN sessions :
        Stopped(s) => sessions[s].blob = sessions[s].captured

\* C28: a translate, refine, speak or document-translate action that has
\* come to its end, with a result or with a failure, has put its in-progress
\* flag back to false: a flag is set only while the action that set it is
\* still waiting (for the remote call or, on the Documents page, for the
\* encoding of the file before it).
C28_FlagsResetOnCompletion ==
    /\ isLoading    => HomeCalls("translateText") # {}
    /\ isRefining   => HomeCalls("refineText") # {}
    /\ isSpeaking   => HomeCalls("generateSpeech") # {}
    /\ isProcessing => docJob.phase \in {"encoding", "translating"}
    /\ docJob.phase = "translating" => DocumentCalls # {}

\* a speak request failed while a document translation was still waiting:
\* the alert was shown, isSpeaking is false again and isProcessing is still set
C28_Witness ==
    /\ last.op = "generateSpeech" /\ last.outcome = "thrown"
    /\ alerts > 0
    /\ ~isSpeaking /\ ~isLoading /\ ~isRefining
    /\ isProcessing /\ DocumentCalls # {}

\* C24: isLoading is true whenever a translateText or a transcribeAudio
\* request started from Home is still in flight, however a pending
\* translation and a stopped recording interleave.
C24_LoadingWhileInFlight ==
    (\/ HomeCalls("translateText") # {}
     \/ \E s \in DOMAIN sessions : sessions[s].phase = "transcribing")
        => isLoading

\* the sum of the field of the entries of a list
RECURSIVE SumOf(_, _)
SumOf(list, field) ==
    IF list = <<>> THEN 0 ELSE Head(list)[field] + SumOf(Tail(list), field)

\* C29: the values of languageDistribution add up to totalTranslations, and
\* totalTranslations is the number of records getHistory() returns.
C29_DistributionSumsToTotal ==
    analytics # <<>> =>
        /\ SumOf(analytics.data.languageDistribution, "value")
              = analytics.data.totalTranslations
        /\ analytics.data.totalTranslations = Len(getHistory)

\* three records in two languages: the values 2 and 1 add up to 3
C29_Witness ==
    /\ analytics # <<>>
    /\ analytics.data.totalTranslations = 3
    /\ Len(analytics.data.languageDistribution) = 2
    /\ analytics.data.languageDistribution[1].value = 2
    /\ getHistory[1].targetLang = "English"
    /\ getHistory[2].targetLang = "en"

\* the dates the window of a getAnalytics() call is seeded with
WindowDates(at) == {ISODate(SetDateBack(tz, at, i)) : i \in 0..(WindowDays - 1)}

\* the records of the log whose timestamp has the UTC date d
RecordsOn(d) == {i \in DOMAIN getHistory : ISODate(getHistory[i].timestamp) = d}

\* C30: dailyActivity has one entry per date of the window and its count is
\* the number of records whose timestamp falls on that date, so that a
\* record of a window date is counted once, in the entry of its date, a
\* record outside the window is counted nowhere, and the counts add up to
\* at most totalTranslations.
C30_DailyCounts ==
    analytics # <<>> =>
        LET daily == analytics.data.dailyActivity
            window == WindowDates(analytics.at)
        IN  /\ {daily[j].date : j \in DOMAIN daily} = window
            /\ \A j, k \in DOMAIN daily : daily[j].date = daily[k].date => j = k
            /\ \A j \in DOMAIN daily :
                  daily[j].count = Cardinality(RecordsOn(daily[j].date))
            /\ SumOf(daily, "count")
                  = Cardinality({i \in DOMAIN getHistory :
                                    ISODate(getHistory[i].timestamp) \in window})
            /\ SumOf(daily, "count") <= analytics.data.totalTranslations

\* two records of the day of the call are counted in its entry, the record of
\* an earlier visit is outside the window and counted nowhere
C30_Witness ==
    /\ analytics # <<>>
    /\ analytics.data.totalTranslations = 3
    /\ SumOf(analytics.data.dailyActivity, "count") = 2
    /\ \E j \in DOMAIN analytics.data.dailyActivity :
          /\ analytics.data.dailyActivity[j].date = ISODate(analytics.at)
          /\ analytics.data.dailyActivity[j].count = 2
    /\ getHistory[3] = EarlierRecord
    /\ ISODate(EarlierRecord.timestamp) \notin WindowDates(analytics.at)

====
